---- MODULE Spec2Model ----
(***************************************************************************)
(* Model of the Dekr weekly podcast generator                              *)
(* (packages/podcast-generator/podcast_generator.py).                      *)
(*                                                                         *)
(* The document store (collections 'users' and 'podcasts'), the object     *)
(* store, the text and speech backends and the audio library are           *)
(* collaborators: each call to one of them either succeeds or raises. The  *)
(* service handles one request at a time (the handlers are coroutines that *)
(* never await), so a request runs to completion before the next starts.   *)
(***************************************************************************)
EXTENDS Integers, Sequences, FiniteSets, TLC

\* ---------------------------------------------------------------- bounds
MaxRuns == 2            \* generate_podcast calls in one behaviour
MaxTicks == 1           \* clock ticks in one behaviour
MaxLimit == 2           \* largest limit a history lookup asks for
SecLen == 2             \* clock units per second (strftime drops the fraction)
DayLen == 4             \* clock units per day (timedelta.days granularity)

\* ------------------------------------------------------------- constants
WeekDays == 7           \* days_since_last >= 7
InitNow == WeekDays * DayLen    \* clock reading at start: day 7
FadeMs == 3000          \* intro_audio.fade_out(3000)
SilenceMs == 3000       \* AudioSegment.silent(duration=3000)

Users == {"u1", "u2"}
Ghost == "ghost"        \* an identifier with no user document
NoUid == "-"

IntroStingers == {"Podcast Intro.mp3", "Fashion Podcast Intro.mp3"}
VoiceLens == {2000, 5000}       \* length (ms) of the synthesized voice
BackendTexts == {"", "s1"}      \* texts the text-generation backend returns
NoIntro == "-"

\* get_fallback_script
FallbackScript == "fallback"

VARIABLES
    now,        \* wall clock (datetime.now(), server timestamp)
    users,      \* 'users' collection: uid -> user record
    podcasts,   \* 'podcasts' collection, in creation order
    blobs,      \* object store: set of [uid, stamp, len]
    tempFiles,  \* temporary files on disk: how many of each kind
    pc,         \* position of the request being served
    mode,       \* "none" | "one" (generate-one endpoint) | "job" (batch)
    cur,        \* uid of the running generate_podcast call
    backend,    \* response of the text backend in this run
    script, introName, introLen, voiceLen, mixedLen, audioUrl,
    queue,      \* users the batch run has still to iterate
    results,    \* run_weekly_job's counters
    checked,    \* per user of the batch run: what should_generate_podcast saw and did
    jobState,   \* "none" | "running" | "returned" | "raised"
    ret,        \* how the last generate_podcast call ended
    failStage,  \* stage at which the last generate_podcast call raised
    users0,     \* 'users' collection when the last generate_podcast call started
    npod0,      \* number of Program Records at that moment
    temp0,      \* temporary files at that moment
    urlRun,     \* URL upload_to_firebase_storage returned in that call, if any
    nrun,       \* generate_podcast calls so far
    provenance, \* per Program Record: who started its run, did its update succeed
    lookup      \* what the last history lookup was asked and answered

storeVars == <<users, podcasts, blobs, tempFiles>>
localVars == <<cur, backend, script, introName, introLen, voiceLen, mixedLen, audioUrl>>
jobVars == <<queue, results, checked, jobState>>
histVars == <<ret, failStage, users0, npod0, temp0, urlRun, nrun>>
vars == <<now, users, podcasts, blobs, tempFiles, pc, mode, cur, backend, script,
          introName, introLen, voiceLen, mixedLen, audioUrl, queue, results,
          checked, jobState, ret, failStage, users0, npod0, temp0, urlRun,
          nrun, provenance, lookup>>

\* ------------------------------------------------- last-generation values
\* kind "absent": field missing or None; "ts": a store timestamp (a datetime
\* object, which has timestamp()); "num": a raw number.
Absent == [kind |-> "absent", t |-> 0]
Ts(t) == [kind |-> "ts", t |-> t]
Num(t) == [kind |-> "num", t |-> t]

NoUrl == [uid |-> NoUid, stamp |-> 0]
NoBackend == [kind |-> "none", some |-> FALSE, text |-> ""]

\* what the store holds for a user at start: nothing, a timestamp exactly 7
\* days old (u1) or 6 days old (u2), a raw number
InitLast(u) ==
    IF u = "u1" THEN {Absent, Ts(0), Num(DayLen)} ELSE {Absent, Ts(DayLen)}

\* `not user_data.get('lastPodcast')`
Falsy(v) == v.kind = "absent" \/ (v.kind = "num" /\ v.t = 0)

\* hasattr(last_podcast, 'timestamp')
HasTimestamp(v) == v.kind = "ts"

\* last_podcast.timestamp(): POSIX seconds as a float
TimestampOf(v) == Num(v.t)

\* (now - last_podcast_date).days: datetime minus datetime gives a timedelta,
\* datetime minus a number raises TypeError
DaysSince(n, d) ==
    IF d.kind = "ts"
    THEN [raised |-> FALSE, days |-> (n - d.t) \div DayLen]
    ELSE [raised |-> TRUE, days |-> 0]

\* variant: the check answers eligible whatever the record holds
ShouldGenerateAlways(v, n) == [raised |-> FALSE, value |-> TRUE]

\* should_generate_podcast(user_data), given user_data.get('lastPodcast')
should_generate_podcast(v, n) ==
    IF Falsy(v) THEN [raised |-> FALSE, value |-> TRUE]
    ELSE LET d == IF HasTimestamp(v) THEN TimestampOf(v) ELSE v
             r == DaysSince(n, d)
         IN IF r.raised THEN [raised |-> TRUE, value |-> FALSE]
            ELSE [raised |-> FALSE, value |-> r.days >= WeekDays]

\* ------------------------------------------------------ script synthesis
BackendResponses ==
    {[kind |-> "raise", some |-> FALSE, text |-> ""],
     [kind |-> "no_choices", some |-> FALSE, text |-> ""],
     [kind |-> "ok", some |-> FALSE, text |-> ""]}
    \cup {[kind |-> "ok", some |-> TRUE, text |-> t] : t \in BackendTexts}

get_fallback_script == FallbackScript

\* variant: the content is returned as it is, without `or fallback`
ScriptWithoutOr(b) ==
    IF b.kind \in {"raise", "no_choices"} THEN get_fallback_script
    ELSE b.text

\* try: return response.choices[0].message.content or fallback
\* except Exception: return fallback
generate_podcast_script(b) ==
    IF b.kind \in {"raise", "no_choices"} THEN get_fallback_script
    ELSE IF b.some /\ b.text # "" THEN b.text
    ELSE get_fallback_script

\* ------------------------------------------------------------ audio mixer
\* AudioSegment.fade_out changes the gain of the tail and keeps the length
fade_out(len, ms) == len

\* base.overlay(seg, position=p): the result always has the length of base;
\* the part of seg that extends past the end of base is cut off
overlay(baseLen, segLen, p) == baseLen

mix_audio(intro, voice) ==
    LET intro_faded == fade_out(intro, FadeMs)
        voice_normalized == voice
        intro_volume_adjusted == intro_faded
    IN overlay(intro_volume_adjusted, voice_normalized, 0)

\* --------------------------------------------------------------- publisher
\* datetime.now().strftime("%Y%m%d_%H%M%S")
Stamp(n) == n \div SecLen

\* blob_path = podcasts/{uid}/podcast_{timestamp}.mp3 and its public URL
BlobUrl(uid, n) == [uid |-> uid, stamp |-> Stamp(n)]

\* blob.upload_from_string replaces what the path held
WriteBlob(bs, uid, n, len) ==
    {b \in bs : ~(b.uid = uid /\ b.stamp = Stamp(n))}
        \cup {[uid |-> uid, stamp |-> Stamp(n), len |-> len]}

\* variant: the except clause of upload_to_firebase_storage logs and returns
UploadSwallows(ok) == FALSE

\* upload_to_firebase_storage: except Exception: log; raise
UploadRaises(ok) == ~ok

\* variant: the except clause of generate_podcast logs and returns
ExceptSwallows(stage) == "returned"

\* generate_podcast: except Exception: log; raise
ExceptHandler(stage) == "raised"

\* variant: the try encloses the loop, an exception ends the iteration
JobBreaksOnError(q) == <<>>

\* run_weekly_job: the except of the loop body counts and goes on
JobAfterError(q) == Tail(q)

\* variant: generate_podcast is called whatever the check did
JobCallsAlways(r) == TRUE

\* run_weekly_job: generate_podcast is called iff the check returned True
JobCallsPipeline(r) == ~r.raised /\ r.value

NoLookup == [status |-> "none", uid |-> NoUid, limit |-> 0, ids |-> <<>>]

NoCheck == [verdict |-> "none", v |-> Absent, at |-> 0, n |-> 0]

Perms == {q \in [1..Cardinality(Users) -> Users] :
            \A i, j \in 1..Cardinality(Users) : i # j => q[i] # q[j]}

\* user_data.get('preferredVoiceId', 'vDchjyOZZytffNeZXfZK')
DefaultVoice == "vDchjyOZZytffNeZXfZK"
VoiceIdOf(user_data) ==
    IF user_data.preferredVoiceId = "" THEN DefaultVoice ELSE user_data.preferredVoiceId

\* a User Record as the store holds it before the service starts
InitUser(u, v) ==
    [email |-> u,
     preferredVoiceId |-> IF u = "u1" THEN "voiceA" ELSE "",
     lastPodcast |-> v,
     lastPodcastUrl |-> IF v.kind = "absent" THEN NoUrl ELSE BlobUrl(u, v.t)]

\* ------------------------------------------------------------------ Init
Init ==
    /\ now = InitNow
    /\ \E f \in [Users -> UNION {InitLast(u) : u \in Users}] :
         /\ \A u \in Users : f[u] \in InitLast(u)
         /\ users = [u \in Users |-> InitUser(u, f[u])]
    /\ podcasts = <<>>
    /\ blobs = {}
    /\ tempFiles = [voice |-> 0, final |-> 0]
    /\ pc = "idle"
    /\ mode = "none"
    /\ cur = NoUid
    /\ backend = NoBackend
    /\ script = ""
    /\ introName = NoIntro
    /\ introLen = 0
    /\ voiceLen = 0
    /\ mixedLen = 0
    /\ audioUrl = NoUrl
    /\ queue = <<>>
    /\ results = [generated |-> 0, skipped |-> 0, errors |-> 0]
    /\ checked = [u \in Users |-> NoCheck]
    /\ jobState = "none"
    /\ ret = "none"
    /\ failStage = "none"
    /\ users0 = users
    /\ npod0 = 0
    /\ temp0 = tempFiles
    /\ urlRun = NoUrl
    /\ nrun = 0
    /\ provenance = <<>>
    /\ lookup = NoLookup


\* ------------------------------------------------------- control helpers
ClearLocals ==
    /\ cur' = NoUid
    /\ backend' = NoBackend
    /\ script' = ""
    /\ introName' = NoIntro
    /\ introLen' = 0
    /\ voiceLen' = 0
    /\ mixedLen' = 0
    /\ audioUrl' = NoUrl

\* generate_podcast is entered for uid
Enter(uid) ==
    /\ nrun < MaxRuns
    /\ pc' = "get_user"
    /\ cur' = uid
    /\ ret' = "none"
    /\ failStage' = "none"
    /\ users0' = users
    /\ npod0' = Len(podcasts)
    /\ temp0' = tempFiles
    /\ urlRun' = NoUrl
    /\ nrun' = nrun + 1
    /\ UNCHANGED <<backend, script, introName, introLen, voiceLen, mixedLen, audioUrl>>

\* generate_podcast ends with r ("returned" or "raised"); control goes back to
\* the endpoint (which answers the request) or to the loop of run_weekly_job
\* (generated += 1, or the except branch: errors += 1)
Leave(r, stage) ==
    /\ ret' = r
    /\ failStage' = stage
    /\ ClearLocals
    /\ UNCHANGED <<users0, npod0, temp0, urlRun, nrun, checked, jobState, lookup>>
    /\ IF mode = "job"
       THEN /\ pc' = "job"
            /\ mode' = mode
            /\ results' = IF r = "returned"
                          THEN [results EXCEPT !.generated = @ + 1]
                          ELSE [results EXCEPT !.errors = @ + 1]
            /\ queue' = IF r = "returned" THEN Tail(queue) ELSE JobAfterError(queue)
       ELSE /\ pc' = "idle"
            /\ mode' = "none"
            /\ UNCHANGED <<queue, results>>

\* an exception reaches the except clause of generate_podcast at `stage`
Fail(stage) == Leave(ExceptHandler(stage), stage)

\* the call goes on to the next statement
Goto(next) ==
    /\ pc' = next
    /\ UNCHANGED <<mode, queue, results, checked, jobState>>
    /\ UNCHANGED <<ret, failStage, users0, npod0, temp0, nrun, lookup>>

Step(next) == Goto(next) /\ UNCHANGED urlRun

\* ---------------------------------------------------------------- clock
\* The clock is read by should_generate_podcast, by upload_to_firebase_storage,
\* for the title, and by the store for its server timestamps: time that
\* passes elsewhere shows at the next of these places.
ClockRead == {"idle", "job", "upload", "add", "update"}

Tick ==
    /\ now < InitNow + MaxTicks
    /\ pc \in ClockRead
    /\ now' = now + 1
    /\ UNCHANGED <<storeVars, pc, mode, localVars, jobVars, histVars, lookup>>
    /\ UNCHANGED provenance

\* ------------------------------------------------------ service boundary
\* POST /generate-podcast/{uid}: generator.generate_podcast(uid)
GenerateOne ==
    /\ pc = "idle"
    /\ \E uid \in Users \cup {Ghost} : Enter(uid)
    /\ mode' = "one"
    /\ checked' = [u \in Users |-> NoCheck]
    /\ jobState' = "none"
    /\ lookup' = NoLookup
    /\ UNCHANGED <<now, storeVars, queue, results>>
    /\ UNCHANGED provenance

\* POST /run-weekly-job: users = db.collection('users').stream()
StartWeeklyJob ==
    /\ pc = "idle"
    /\ ret' = "none"
    /\ failStage' = "none"
    /\ users0' = users
    /\ npod0' = Len(podcasts)
    /\ temp0' = tempFiles
    /\ urlRun' = NoUrl
    /\ lookup' = NoLookup
    /\ results' = [generated |-> 0, skipped |-> 0, errors |-> 0]
    /\ checked' = [u \in Users |-> NoCheck]
    /\ \E ok \in BOOLEAN :
         IF ok
         THEN /\ \E q \in Perms : queue' = q
              /\ pc' = "job"
              /\ mode' = "job"
              /\ jobState' = "running"
         ELSE /\ queue' = <<>>
              /\ pc' = "idle"
              /\ mode' = "none"
              /\ jobState' = "raised"
    /\ UNCHANGED <<now, storeVars, localVars, nrun, provenance>>


\* ---------------------------------------------------------- batch runner
\* one iteration of `for user_doc in users` up to the call of generate_podcast
JobCheck ==
    /\ pc = "job"
    /\ queue # <<>>
    /\ LET uid == Head(queue)
           user_data == users[uid]
           r == should_generate_podcast(user_data.lastPodcast, now)
           verdict == IF r.raised THEN "raised" ELSE IF r.value THEN "true" ELSE "false"
       IN /\ checked' = [checked EXCEPT ![uid] =
                            [verdict |-> verdict, v |-> user_data.lastPodcast,
                             at |-> now, n |-> @.n + 1]]
          /\ IF JobCallsPipeline(r)
             THEN /\ Enter(uid)
                  /\ UNCHANGED <<mode, queue, results>>
             ELSE /\ pc' = "job"
                  /\ results' = IF r.raised
                                THEN [results EXCEPT !.errors = @ + 1]
                                ELSE [results EXCEPT !.skipped = @ + 1]
                  /\ queue' = IF r.raised THEN JobAfterError(queue) ELSE Tail(queue)
                  /\ UNCHANGED <<mode, localVars, histVars>>
    /\ UNCHANGED <<now, storeVars, jobState, lookup>>
    /\ UNCHANGED provenance

\* the stream of user documents raises while it is iterated: the outer
\* except of run_weekly_job logs and raises
JobStreamError ==
    /\ pc = "job"
    /\ queue # <<>>
    /\ pc' = "idle"
    /\ mode' = "none"
    /\ queue' = <<>>
    /\ jobState' = "raised"
    /\ UNCHANGED <<now, storeVars, localVars, results, checked, histVars, lookup>>
    /\ UNCHANGED provenance

\* the loop is over: return results
JobReturn ==
    /\ pc = "job"
    /\ queue = <<>>
    /\ pc' = "idle"
    /\ mode' = "none"
    /\ jobState' = "returned"
    /\ UNCHANGED <<now, storeVars, localVars, queue, results, checked, histVars, lookup>>
    /\ UNCHANGED provenance


\* ------------------------------------------------------ generate_podcast
\* 1. user_doc = db.collection('users').doc(uid).get(); ValueError if absent
GetUser ==
    /\ pc = "get_user"
    /\ \E ok \in BOOLEAN :
         IF ok /\ cur \in Users
         THEN Step("script") /\ UNCHANGED localVars
         ELSE Fail("get_user")
    /\ UNCHANGED <<now, storeVars>>
    /\ UNCHANGED provenance

\* 2. script = generate_podcast_script(user_data, {})
Script ==
    /\ pc = "script"
    /\ \E b \in BackendResponses :
         /\ backend' = b
         /\ script' = generate_podcast_script(b)
    /\ Step("voice")
    /\ UNCHANGED <<cur, introName, introLen, voiceLen, mixedLen, audioUrl>>
    /\ UNCHANGED <<now, storeVars>>
    /\ UNCHANGED provenance

\* 3. voice_audio_data = generate_voice(script, voice_id): raises on failure
Voice ==
    /\ pc = "voice"
    /\ \E ok \in BOOLEAN :
         IF ok
         THEN /\ Step("intro")
              /\ backend' = NoBackend
              /\ UNCHANGED <<cur, script, introName, introLen, voiceLen, mixedLen, audioUrl>>
         ELSE Fail("voice")
    /\ UNCHANGED <<now, storeVars>>
    /\ UNCHANGED provenance

\* load_intro_audio: 3 s of silence when the file is missing, else from_mp3
load_intro_audio(file) ==
    IF ~file.exists THEN [raised |-> FALSE, len |-> SilenceMs]
    ELSE IF file.readable THEN [raised |-> FALSE, len |-> file.len]
    ELSE [raised |-> TRUE, len |-> 0]

\* the intro directory: one stinger is missing, the other is an 8 s clip
\* that from_mp3 may fail to decode
IntroFiles(name) ==
    IF name = "Podcast Intro.mp3"
    THEN {[exists |-> FALSE, readable |-> FALSE, len |-> 0]}
    ELSE {[exists |-> TRUE, readable |-> r, len |-> 8000] : r \in BOOLEAN}

\* 4. intro_filename = select_random_intro(); load_intro_audio(intro_filename)
Intro ==
    /\ pc = "intro"
    /\ \E name \in IntroStingers : \E file \in IntroFiles(name) :
         LET r == load_intro_audio(file)
         IN IF r.raised
            THEN Fail("intro")
            ELSE /\ introName' = name
                 /\ introLen' = r.len
                 /\ Step("mktemp_voice")
                 /\ UNCHANGED <<cur, backend, script, voiceLen, mixedLen, audioUrl>>
    /\ UNCHANGED <<now, storeVars>>
    /\ UNCHANGED provenance

\* NamedTemporaryFile(delete=False) makes a new file; os.unlink removes it
Created(tf, kind) == [tf EXCEPT ![kind] = @ + 1]
Unlinked(tf, kind) == [tf EXCEPT ![kind] = @ - 1]

\* 5. with tempfile.NamedTemporaryFile(suffix='.mp3', delete=False) as temp_voice
MkTempVoice ==
    /\ pc = "mktemp_voice"
    /\ \E ok \in BOOLEAN :
         IF ok
         THEN /\ tempFiles' = Created(tempFiles, "voice")
              /\ Step("decode")
              /\ UNCHANGED localVars
         ELSE /\ UNCHANGED tempFiles
              /\ Fail("decode")
    /\ UNCHANGED <<now, users, podcasts, blobs>>
    /\ UNCHANGED provenance

\* write, flush, AudioSegment.from_mp3(temp_voice.name), os.unlink: the
\* unlink is the last statement of the block and runs only if none raised
Decode ==
    /\ pc = "decode"
    /\ \E o \in {"ok", "write", "from_mp3"}, len \in VoiceLens :
         IF o = "ok"
         THEN /\ voiceLen' = len
              /\ tempFiles' = Unlinked(tempFiles, "voice")
              /\ Step("mix")
              /\ UNCHANGED <<cur, backend, script, introName, introLen, mixedLen, audioUrl>>
         ELSE /\ UNCHANGED tempFiles
              /\ Fail("decode")
    /\ UNCHANGED <<now, users, podcasts, blobs>>
    /\ UNCHANGED provenance

\* 6. final_audio = mix_audio(intro_audio, voice_audio)
Mix ==
    /\ pc = "mix"
    /\ \E ok \in BOOLEAN :
         IF ok
         THEN /\ mixedLen' = mix_audio(introLen, voiceLen)
              /\ Step("mktemp_final")
              /\ UNCHANGED <<cur, backend, script, introName, introLen, voiceLen, audioUrl>>
         ELSE Fail("mix")
    /\ UNCHANGED <<now, storeVars>>
    /\ UNCHANGED provenance

\* 7. with tempfile.NamedTemporaryFile(suffix='.mp3', delete=False) as temp_final
MkTempFinal ==
    /\ pc = "mktemp_final"
    /\ \E ok \in BOOLEAN :
         IF ok
         THEN /\ tempFiles' = Created(tempFiles, "final")
              /\ Step("export")
              /\ introLen' = 0
              /\ voiceLen' = 0
              /\ UNCHANGED <<cur, backend, script, introName, mixedLen, audioUrl>>
         ELSE /\ UNCHANGED tempFiles
              /\ Fail("export")
    /\ UNCHANGED <<now, users, podcasts, blobs>>
    /\ UNCHANGED provenance

\* final_audio.export, open(...).read(), os.unlink
Export ==
    /\ pc = "export"
    /\ \E o \in {"ok", "export", "read"} :
         IF o = "ok"
         THEN /\ tempFiles' = Unlinked(tempFiles, "final")
              /\ Step("upload")
              /\ UNCHANGED localVars
         ELSE /\ UNCHANGED tempFiles
              /\ Fail("export")
    /\ UNCHANGED <<now, users, podcasts, blobs>>
    /\ UNCHANGED provenance

\* 8. audio_url = upload_to_firebase_storage(uid, final_audio_data):
\* upload_from_string, then make_public, then return blob.public_url
Upload ==
    /\ pc = "upload"
    /\ \E o \in {"ok", "upload_from_string", "make_public"} :
         /\ blobs' = IF o = "upload_from_string" THEN blobs
                     ELSE WriteBlob(blobs, cur, now, mixedLen)
         /\ IF UploadRaises(o = "ok")
            THEN Fail("upload")
            ELSE /\ audioUrl' = IF o = "ok" THEN BlobUrl(cur, now) ELSE NoUrl
                 /\ urlRun' = IF o = "ok" THEN BlobUrl(cur, now) ELSE NoUrl
                 /\ Goto("add")
                 /\ UNCHANGED <<cur, backend, script, introName, introLen, voiceLen, mixedLen>>
    /\ UNCHANGED <<now, users, podcasts, tempFiles>>
    /\ UNCHANGED provenance

\* 9. podcast_data
PodcastData ==
    [userId |-> cur,
     title |-> now \div DayLen,
     script |-> script,
     audioUrl |-> audioUrl,
     duration |-> mixedLen \div 1000,
     createdAt |-> now,
     voiceId |-> VoiceIdOf(users[cur]),
     introStinger |-> introName,
     status |-> "completed"]

\* 10. db.collection('podcasts').add(podcast_data)
Add ==
    /\ pc = "add"
    /\ \E ok \in BOOLEAN :
         IF ok
         THEN /\ podcasts' = Append(podcasts, PodcastData)
              /\ provenance' = Append(provenance, [by |-> mode, updated |-> FALSE])
              /\ Step("update")
              /\ script' = ""
              /\ introName' = NoIntro
              /\ mixedLen' = 0
              /\ UNCHANGED <<cur, backend, introLen, voiceLen, audioUrl>>
         ELSE /\ UNCHANGED <<podcasts, provenance>>
              /\ Fail("add")
    /\ UNCHANGED <<now, users, blobs, tempFiles>>

\* variant: set({...}) in place of update({...}), which replaces the document
\* and so drops the fields it does not name
SetLastPodcast(doc, n, url) ==
    [email |-> "", preferredVoiceId |-> "", lastPodcast |-> Ts(n),
     lastPodcastUrl |-> url]

\* .update({'lastPodcast': SERVER_TIMESTAMP, 'lastPodcastUrl': audio_url}):
\* the two named fields are written, the rest of the document stays
UpdateLastPodcast(doc, n, url) ==
    [doc EXCEPT !.lastPodcast = Ts(n), !.lastPodcastUrl = url]

\* 11. db.collection('users').doc(uid).update({lastPodcast, lastPodcastUrl});
\* then the summary is returned
Update ==
    /\ pc = "update"
    /\ \E ok \in BOOLEAN :
         IF ok
         THEN /\ users' = [users EXCEPT
                              ![cur] = UpdateLastPodcast(users[cur], now, audioUrl)]
              /\ provenance' = [provenance EXCEPT ![Len(provenance)].updated = TRUE]
              /\ Leave("returned", "none")
         ELSE /\ UNCHANGED <<users, provenance>>
              /\ Fail("update")
    /\ UNCHANGED <<now, podcasts, blobs, tempFiles>>

\* ---------------------------------------------------------- history lookup
Min(a, b) == IF a <= b THEN a ELSE b

\* .where('userId', '==', uid): the ids of the documents of uid (a document
\* id is the position of the record in `podcasts`)
Where(uid) == {i \in 1..Len(podcasts) : podcasts[i].userId = uid}

\* variant: order_by('createdAt') in the default, ascending direction
OrderByAsc(ids) ==
    {s \in [1..Cardinality(ids) -> ids] :
        /\ \A i, j \in 1..Cardinality(ids) : i # j => s[i] # s[j]
        /\ \A i, j \in 1..Cardinality(ids) :
              i < j => podcasts[s[i]].createdAt <= podcasts[s[j]].createdAt}

\* .order_by('createdAt', direction=DESCENDING): the orders the store may
\* deliver the documents in (documents of equal createdAt come in any order)
OrderByDesc(ids) ==
    {s \in [1..Cardinality(ids) -> ids] :
        /\ \A i, j \in 1..Cardinality(ids) : i # j => s[i] # s[j]
        /\ \A i, j \in 1..Cardinality(ids) :
              i < j => podcasts[s[i]].createdAt >= podcasts[s[j]].createdAt}

\* .limit(limit)
Limit(s, n) == SubSeq(s, 1, Min(n, Len(s)))

\* GET /user-podcasts/{uid}?limit=n: the query is streamed into podcast_list;
\* an exception of the store becomes an HTTP 500. As at every request, what
\* was recorded about the request before it is dropped.
GetUserPodcasts ==
    /\ pc = "idle"
    /\ \E uid \in Users \cup {Ghost}, n \in 1..MaxLimit, ok \in BOOLEAN :
         IF ok
         THEN \E s \in OrderByDesc(Where(uid)) :
                 lookup' = [status |-> "ok", uid |-> uid, limit |-> n,
                            ids |-> Limit(s, n)]
         ELSE lookup' = [NoLookup EXCEPT !.status = "error"]
    /\ ret' = "none"
    /\ failStage' = "none"
    /\ users0' = users
    /\ npod0' = Len(podcasts)
    /\ temp0' = tempFiles
    /\ urlRun' = NoUrl
    /\ results' = [generated |-> 0, skipped |-> 0, errors |-> 0]
    /\ checked' = [u \in Users |-> NoCheck]
    /\ jobState' = "none"
    /\ UNCHANGED <<now, storeVars, pc, mode, localVars, queue, nrun, provenance>>

Next ==
    \/ Tick
    \/ GenerateOne
    \/ StartWeeklyJob
    \/ JobCheck
    \/ JobStreamError
    \/ JobReturn
    \/ GetUser
    \/ Script
    \/ Voice
    \/ Intro
    \/ MkTempVoice
    \/ Decode
    \/ Mix
    \/ MkTempFinal
    \/ Export
    \/ Upload
    \/ Add
    \/ Update
    \/ GetUserPodcasts

Spec == Init /\ [][Next]_vars

TypeOK ==
    /\ now \in InitNow..(InitNow + MaxTicks)
    /\ pc \in {"idle", "job", "get_user", "script", "voice", "intro", "mktemp_voice",
               "decode", "mix", "mktemp_final", "export", "upload", "add", "update"}
    /\ mode \in {"none", "one", "job"}
    /\ ret \in {"none", "returned", "raised"}
    /\ jobState \in {"none", "running", "returned", "raised"}
    /\ nrun \in 0..MaxRuns


\* ---------------------------------------------------------------- claims
Max(a, b) == IF a >= b THEN a ELSE b

\* stages of generate_podcast that follow the script synthesis
AfterScript == {"voice", "intro", "mktemp_voice", "decode", "mix", "mktemp_final",
                "export", "upload", "add", "update"}

\* the eligibility rule as stated: absent, or at least 7 whole days old
Eligible(v, n) == v.kind = "absent" \/ (n - v.t) \div DayLen >= WeekDays

\* the counters of a finished batch run add up to the users iterated
JobCountsSum ==
    jobState = "returned" =>
        results.generated + results.skipped + results.errors = Cardinality(Users)

\* C1: a Program Record is created, and the User Record updated, only after
\* upload_to_firebase_storage has returned a URL in the same run; when voice
\* synthesis, decoding, mixing, export or upload raised, the run has created no
\* Program Record and has left the User Records as they were.
C1_RecordOnlyAfterUpload ==
    /\ Len(podcasts) > npod0 => urlRun # NoUrl
    /\ users # users0 => urlRun # NoUrl
    /\ (ret = "raised" /\ failStage \in {"voice", "intro", "decode", "mix", "export", "upload"})
          => (Len(podcasts) = npod0 /\ users = users0)

\* the upload raised after the run got that far: nothing was recorded
C1_Witness ==
    /\ ret = "raised"
    /\ failStage = "upload"
    /\ Len(podcasts) = npod0
    /\ users = users0

\* C2: when run_weekly_job returns, generated + skipped + errors is the number
\* of users iterated, and skipped counts the ineligible users (those whose
\* last-generation value is less than 7 days old).
C2_CountsPartition ==
    jobState = "returned" =>
        /\ results.generated + results.skipped + results.errors = Cardinality(Users)
        /\ results.skipped =
             Cardinality({u \in Users : /\ checked[u].verdict # "none"
                                        /\ ~Eligible(checked[u].v, checked[u].at)})

\* C3: an exception while one user is processed does not end the iteration:
\* a batch run that returns has processed every user exactly once, and no user
\* is ever processed twice in a run.
C3_ErrorsIsolated ==
    /\ \A u \in Users : checked[u].n <= 1
    /\ jobState = "returned" => \A u \in Users : checked[u].n = 1
    /\ (mode = "job" /\ ret = "raised") => jobState = "running"

\* a batch run returned although the processing of every user raised
C3_Witness ==
    /\ jobState = "returned"
    /\ results.errors = Cardinality(Users)
    /\ \E u \in Users : checked[u].verdict = "true"

\* C4: should_generate_podcast returns eligible for an absent value, and
\* otherwise returns eligible iff the value is at least 7 whole days old.
C4_EligibilityRule ==
    \A u \in Users :
        checked[u].verdict # "none" =>
            checked[u].verdict =
                IF Eligible(checked[u].v, checked[u].at) THEN "true" ELSE "false"

\* C5: should_generate_podcast never raises, whichever representation the
\* stored last-generation value has.
C5_CheckNeverRaises ==
    \A u \in Users : checked[u].verdict # "raised"

\* C6: the buffer mix_audio returns is as long as the longer of its inputs.
C6_MixIsLongest ==
    pc = "mktemp_final" => mixedLen = Max(introLen, voiceLen)

\* C7: generate_podcast_script never raises and never returns the empty
\* string: it returns the backend's text when that is non-empty, and the
\* fallback script in every other case.
C7_ScriptOrFallback ==
    /\ failStage # "script"
    /\ pc = "voice" =>
         /\ script # ""
         /\ script = IF backend.kind = "ok" /\ backend.some /\ backend.text # ""
                     THEN backend.text
                     ELSE FallbackScript

\* the backend answered without choices and the run goes on with the fallback
C7_Witness ==
    /\ pc = "voice"
    /\ backend.kind = "no_choices"
    /\ script = FallbackScript

\* C8: after a successful upload, a failure of the record creation or of the
\* user update is raised, and nothing is rolled back: the blob stays, and when
\* only the user update failed the Program Record stays and the User Records
\* keep their old values.
C8_RaisedNoRollback ==
    failStage \in {"add", "update"} =>
        /\ ret = "raised"
        /\ \E b \in blobs : b.uid = urlRun.uid /\ b.stamp = urlRun.stamp
        /\ users = users0
        /\ failStage = "add" => Len(podcasts) = npod0
        /\ failStage = "update" =>
              /\ Len(podcasts) = npod0 + 1
              /\ podcasts[Len(podcasts)].audioUrl = urlRun

\* the user update failed after the record was created
C8_Witness ==
    /\ failStage = "update"
    /\ ret = "raised"
    /\ Len(podcasts) = npod0 + 1

\* C9: when generate_podcast has exited, the temporary files it created are
\* gone.
C9_TempFilesDeleted ==
    ret # "none" => tempFiles = temp0

\* C10: no stage from the script synthesis on runs for a user unless
\* should_generate_podcast has returned eligible for that user in this run.
C10_EligibilityFirst ==
    pc \in AfterScript => (cur \in Users /\ checked[cur].verdict = "true")

\* C10 (amended): in a batch run, no stage from the script synthesis on runs
\* for a user unless should_generate_podcast has returned eligible for that
\* user in this run.
C10_BatchEligibilityFirst ==
    (mode = "job" /\ pc \in AfterScript) =>
        (cur \in Users /\ checked[cur].verdict = "true")

\* a batch run is about to update the User Record of an eligible user
C10_Witness ==
    /\ mode = "job"
    /\ pc = "update"
    /\ checked[cur].verdict = "true"


\* C11: a history lookup for user u with limit N answers with at most N
\* Program Records, all of u, newest first, and they are the newest of u: no
\* record of u that was left out is newer than one that was returned.
C11_HistoryLookup ==
    lookup.status = "ok" =>
        LET s == lookup.ids
            mine == Where(lookup.uid)
            got == {s[i] : i \in 1..Len(s)}
        IN /\ Len(s) <= lookup.limit
           /\ Len(s) = Min(lookup.limit, Cardinality(mine))
           /\ Cardinality(got) = Len(s)
           /\ got \subseteq mine
           /\ \A i, j \in 1..Len(s) :
                 i < j => podcasts[s[i]].createdAt >= podcasts[s[j]].createdAt
           /\ \A k \in mine \ got : \A i \in got :
                 podcasts[i].createdAt >= podcasts[k].createdAt

\* a user with two records of different age was looked up with limit 1
C11_Witness ==
    /\ lookup.status = "ok"
    /\ lookup.limit = 1
    /\ Len(lookup.ids) = 1
    /\ \E k \in Where(lookup.uid) :
          podcasts[k].createdAt < podcasts[lookup.ids[1]].createdAt


\* the fields of a User Record other than the last-generation fields
OtherFields(doc) == [email |-> doc.email, preferredVoiceId |-> doc.preferredVoiceId]

\* C12, steps: no step of a generate-one, batch-run or history-lookup
\* operation changes a field of a User Record other than lastPodcast and
\* lastPodcastUrl, and no step modifies or deletes a Program Record: the
\* collection only grows, by one record at a time, at the end.
C12_StepFrame ==
    /\ \A u \in Users : OtherFields(users'[u]) = OtherFields(users[u])
    /\ Len(podcasts') \in {Len(podcasts), Len(podcasts) + 1}
    /\ SubSeq(podcasts', 1, Len(podcasts)) = podcasts

\* C12, runs: a pipeline run that returned its summary created exactly one
\* Program Record.
C12_OneRecordPerRun == ret = "returned" => Len(podcasts) = npod0 + 1

\* C12: the system writes to a User Record only lastPodcast and
\* lastPodcastUrl, never modifies or deletes a Program Record, and creates
\* exactly one Program Record per successful pipeline run.
C12_Frame == [][C12_StepFrame]_vars /\ []C12_OneRecordPerRun

\* a generate-one run and a batch run each created a record and updated the
\* User Record, and a history lookup followed
C12_Witness ==
    /\ Len(podcasts) = 2
    /\ provenance[1].by = "one"
    /\ provenance[1].updated
    /\ provenance[2].by = "job"
    /\ provenance[2].updated
    /\ lookup.status = "ok"


\* C13: every successful upload writes a blob path of its own, so no two
\* Program Records share an audioUrl (two records with one audioUrl are two
\* successful uploads to one path, the later one replacing the audio of the
\* earlier one).
C13_FreshBlobPath ==
    \A i, j \in 1..Len(podcasts) :
        i # j => podcasts[i].audioUrl # podcasts[j].audioUrl


\* Program Records i < j that batch runs created for one user
BatchPair(i, j) ==
    /\ i < j
    /\ provenance[i].by = "job"
    /\ provenance[j].by = "job"
    /\ podcasts[i].userId = podcasts[j].userId

WeekApart(i, j) == podcasts[j].createdAt - podcasts[i].createdAt >= WeekDays * DayLen

====
